---- MODULE Spec2Model ----
(***************************************************************************)
(* Model of bag_analyzer/extract_all_images.py: the ROS1 sensor_msgs/Image *)
(* decoder parse_ros1_image_message, the extraction loop of                *)
(* extract_all_images_from_bag and the __main__ block, together with the   *)
(* topic test of analyze_bag.py.                                           *)
(*                                                                         *)
(* Bytes are naturals 0..255, a bytes object is a sequence of them, and a  *)
(* str is a sequence of one-character strings (topic names, type names) or *)
(* of character codes (the decoded encoding field).                        *)
(***************************************************************************)
EXTENDS Integers, Sequences, FiniteSets, TLC

VARIABLES
    pc,                \* position of the program
    bag,               \* reader.topics: the topic table of the opened bag
    image_topics,      \* extract_all_images_from_bag: image_topics
    extraction_count,  \* per-topic attempted counter
    success_count,     \* per-topic succeeded counter
    records_read,      \* per-topic number of records reader.messages() has yielded
    decode_calls,      \* number of calls of parse_ros1_image_message so far
    sink_log,          \* the cv2.imwrite calls so far, in order, with their outcome
    last,              \* the record of the latest loop iteration, what the decoder
                       \* returned for it and what was passed to cv2.imwrite
    returned,          \* return value of extract_all_images_from_bag
    outcome,           \* what the __main__ block reported, and its exit code
    raw_data,          \* decoder specification: the input bytes
    parsed             \* decoder specification: the value returned for raw_data

vars == <<pc, bag, image_topics, extraction_count, success_count, records_read,
          decode_calls, sink_log, last, returned, outcome, raw_data, parsed>>

(***************************************************************************)
(* Bounds of the model.                                                    *)
(***************************************************************************)
MaxRecords == 3   \* records in a bag
MaxDim == 2       \* largest height and width of a generated record
MaxData == 12     \* largest declared data_len and largest payload actually present

Min(a, b) == IF a < b THEN a ELSE b

Byte == 0 .. 255

(***************************************************************************)
(* Python bytes/str primitives used by the decoder.                        *)
(***************************************************************************)
\* raw_data[a:b] for 0 <= a: a slice never raises, it is cut at the end.
Slice(s, a, b) ==
    IF a >= Len(s) \/ b <= a THEN << >> ELSE SubSeq(s, a + 1, Min(b, Len(s)))

\* struct.unpack('<I', bs) raises struct.error unless bs holds exactly 4 bytes.
CanUnpackI(bs) == Len(bs) = 4

UnpackI(bs) == bs[1] + 256 * bs[2] + 65536 * bs[3] + 16777216 * bs[4]

\* struct.unpack('<B', bs) raises struct.error unless bs holds exactly 1 byte.
CanUnpackB(bs) == Len(bs) = 1

\* bytes.decode('utf-8') of the encoding field.  ASCII bytes decode to their
\* own code points.  A field with a byte >= 128 either raises
\* UnicodeDecodeError or decodes to a string with a non-ASCII character,
\* which is none of the known encodings: the decoder returns the failure
\* value on both paths, so the two are modelled as the one failure.
CanDecodeUtf8(bs) == \A i \in 1 .. Len(bs) : bs[i] < 128

\* str.rstrip('\x00')
RECURSIVE RStripNul(_)
RStripNul(s) ==
    IF Len(s) > 0 /\ s[Len(s)] = 0 THEN RStripNul(SubSeq(s, 1, Len(s) - 1)) ELSE s

\* The encoding names of the dispatch, as character codes.
bgr8 == <<98, 103, 114, 56>>
rgb8 == <<114, 103, 98, 56>>
mono8 == <<109, 111, 110, 111, 56>>
gray8 == <<103, 114, 97, 121, 56>>
mono16 == <<109, 111, 110, 111, 49, 54>>
yuv422 == <<121, 117, 118, 52, 50, 50>>

(***************************************************************************)
(* numpy / OpenCV primitives used by the decoder.  An array is             *)
(* [isNone, shape, data]: data is the flat row-major sequence of samples.  *)
(***************************************************************************)
None == [isNone |-> TRUE, shape |-> << >>, data |-> << >>]

Array(shape, data) == [isNone |-> FALSE, shape |-> shape, data |-> data]

RECURSIVE Product(_)
Product(shape) == IF shape = << >> THEN 1 ELSE Head(shape) * Product(Tail(shape))

\* np.frombuffer(buf, dtype=np.uint8).reshape(shape): ValueError unless the
\* buffer holds exactly Product(shape) samples.
CanReshape(n, shape) == n = Product(shape)

\* np.frombuffer(buf, dtype=np.uint16): ValueError unless the buffer size is
\* a multiple of the element size; samples are read in native byte order,
\* little-endian on the aarch64 and x86 targets of the program.
CanFromBuffer16(buf) == Len(buf) % 2 = 0

FromBuffer16(buf) == [i \in 1 .. (Len(buf) \div 2) |-> buf[2 * i - 1] + 256 * buf[2 * i]]

\* cv2.cvtColor(a, COLOR_BGR2RGB) and cv2.cvtColor(a, COLOR_RGB2BGR) on an
\* (h, w, 3) uint8 array: both swap samples 0 and 2 of every pixel.
\* cv2.cvtColor raises cv2.error on an empty array.
CanCvtColor(a) == Len(a.data) > 0

SwapRB(a) ==
    Array(a.shape,
          [i \in 1 .. Len(a.data) |->
              IF i % 3 = 1 THEN a.data[i + 2]
              ELSE IF i % 3 = 0 THEN a.data[i - 2]
              ELSE a.data[i]])

\* (img_array / 256).astype(np.uint8), one sample: a true division to float64
\* (exact for a 16-bit value), then a conversion that drops the fraction.
Mono16To8_Rounded(v) == ((v + 128) \div 256) % 256

Mono16To8(v) == v \div 256

(***************************************************************************)
(* parse_ros1_image_message                                                *)
(***************************************************************************)
\* What a call of the function comes to is [img, width, height, encoding,
\* raised]: the tuple it returns, with raised FALSE, or an exception that
\* reaches the caller, with raised TRUE.
\* The value of both failure returns: (None, 0, 0, "").
ParseFailure ==
    [img |-> None, width |-> 0, height |-> 0, encoding |-> << >>, raised |-> FALSE]

\* `except Exception as e`: whatever the body raised, the failure value is
\* returned.
ExceptClause_Reraise(e) ==
    [img |-> None, width |-> 0, height |-> 0, encoding |-> << >>, raised |-> TRUE]

ExceptClause(e) == ParseFailure

\* The dispatch on the encoding string.  Every exception raised in it is
\* caught by the function's except clause, which returns the failure value.
DecodeArray(encoding, image_data, height, width) ==
    IF encoding \in {bgr8, rgb8} THEN
        IF ~CanReshape(Len(image_data), <<height, width, 3>>) THEN None
        ELSE LET img_array == Array(<<height, width, 3>>, image_data)
             IN  IF encoding = bgr8
                 THEN IF CanCvtColor(img_array) THEN SwapRB(img_array) ELSE None
                 ELSE img_array
    ELSE IF encoding \in {mono8, gray8} THEN
        IF ~CanReshape(Len(image_data), <<height, width>>) THEN None
        ELSE Array(<<height, width>>, image_data)
    ELSE IF encoding = mono16 THEN
        IF ~CanFromBuffer16(image_data) THEN None
        ELSE LET samples == FromBuffer16(image_data)
             IN  IF ~CanReshape(Len(samples), <<height, width>>) THEN None
                 ELSE Array(<<height, width>>,
                            [i \in 1 .. Len(samples) |-> Mono16To8(samples[i])])
    ELSE None

\* The fields of the message as the function reads them, each at the offset
\* the previous reads left.  A field is defined only where the reads before
\* it succeeded; parse_ros1_image_message tests them in order.
ReadFields(raw) ==
    LET frame_id_start == 12
        frame_id_len_bytes == Slice(raw, frame_id_start, frame_id_start + 4)
        frame_id_len == UnpackI(frame_id_len_bytes)
        off_height == frame_id_start + 4 + frame_id_len
        height_bytes == Slice(raw, off_height, off_height + 4)
        off_width == off_height + 4
        width_bytes == Slice(raw, off_width, off_width + 4)
        off_enclen == off_width + 4
        enclen_bytes == Slice(raw, off_enclen, off_enclen + 4)
        encoding_len == UnpackI(enclen_bytes)
        off_enc == off_enclen + 4
        encoding_bytes == Slice(raw, off_enc, off_enc + encoding_len)
        off_bigendian == off_enc + encoding_len
        bigendian_bytes == Slice(raw, off_bigendian, off_bigendian + 1)
        off_step == off_bigendian + 1
        step_bytes == Slice(raw, off_step, off_step + 4)
        off_datalen == off_step + 4
        datalen_bytes == Slice(raw, off_datalen, off_datalen + 4)
        data_len == UnpackI(datalen_bytes)
        off_data == off_datalen + 4
    IN  IF ~CanUnpackI(frame_id_len_bytes) THEN [ok |-> FALSE]
        ELSE IF ~CanUnpackI(height_bytes) THEN [ok |-> FALSE]
        ELSE IF ~CanUnpackI(width_bytes) THEN [ok |-> FALSE]
        ELSE IF ~CanUnpackI(enclen_bytes) THEN [ok |-> FALSE]
        ELSE IF ~CanDecodeUtf8(encoding_bytes) THEN [ok |-> FALSE]
        ELSE IF ~CanUnpackB(bigendian_bytes) THEN [ok |-> FALSE]
        ELSE IF ~CanUnpackI(step_bytes) THEN [ok |-> FALSE]
        ELSE IF ~CanUnpackI(datalen_bytes) THEN [ok |-> FALSE]
        ELSE [ok |-> TRUE,
              height |-> UnpackI(height_bytes),
              width |-> UnpackI(width_bytes),
              encoding |-> RStripNul(encoding_bytes),
              data_len |-> data_len,
              remaining |-> Len(raw) - off_data,
              image_data |-> Slice(raw, off_data, off_data + data_len)]

parse_ros1_image_message(raw) ==
    LET f == ReadFields(raw)
    IN  IF ~f.ok THEN ExceptClause("struct.error or UnicodeDecodeError")
        ELSE LET img_array == DecodeArray(f.encoding, f.image_data, f.height, f.width)
             IN  IF img_array.isNone
                 THEN IF f.encoding \in {bgr8, rgb8, mono8, gray8, mono16}
                      THEN ExceptClause("ValueError or cv2.error")
                      ELSE ParseFailure
                 ELSE [img |-> img_array, width |-> f.width, height |-> f.height,
                       encoding |-> f.encoding, raised |-> FALSE]

(***************************************************************************)
(* Serialized records to decode.  A record is laid out as the docstring of *)
(* parse_ros1_image_message gives it; the payload actually present may be  *)
(* shorter or longer than the data_len the record declares.                *)
(***************************************************************************)
LE32(n) == <<n % 256, (n \div 256) % 256, (n \div 65536) % 256, (n \div 16777216) % 256>>

\* Payload byte i of a generated record: distinct values within every pixel.
PayloadByte(i) == (i * 83 + 29) % 256

Payload(n) == [i \in 1 .. n |-> PayloadByte(i)]

Serialize(frame_id, height, width, encoding_bytes, data_len, data) ==
    LE32(7) \o LE32(1) \o LE32(2) \o LE32(Len(frame_id)) \o frame_id
    \o LE32(height) \o LE32(width)
    \o LE32(Len(encoding_bytes)) \o encoding_bytes
    \o <<0>> \o LE32(width) \o LE32(data_len) \o data

\* A record whose length prefixes need not agree with the bytes after them.
SerializeDeclared(frame_id_len, frame_id, height, width, encoding_len, encoding_bytes, data_len, data) ==
    LE32(7) \o LE32(1) \o LE32(2) \o LE32(frame_id_len) \o frame_id
    \o LE32(height) \o LE32(width)
    \o LE32(encoding_len) \o encoding_bytes
    \o <<0>> \o LE32(width) \o LE32(data_len) \o data

Prefixes(r) == {SubSeq(r, 1, k) : k \in 0 .. Len(r) - 1}

\* Malformed inputs: the empty record, every proper prefix of a well-formed
\* record (the ones shorter than the 16-byte fixed prefix among them),
\* length prefixes that point past the end, and encoding bytes that are
\* not ASCII: an invalid UTF-8 sequence and the UTF-8 form of U+00E9.
MalformedInputs ==
    Prefixes(Serialize(<<99, 97, 109>>, 1, 1, bgr8, 3, Payload(3)))
    \cup Prefixes(Serialize(<< >>, 1, 1, mono16, 2, Payload(2)))
    \cup { SerializeDeclared(16777215, <<99, 97, 109>>, 1, 1, 5, mono8, 1, Payload(1)),
           SerializeDeclared(40, << >>, 1, 1, 5, mono8, 1, Payload(1)),
           SerializeDeclared(0, << >>, 1, 1, 16777215, mono8, 1, Payload(1)),
           SerializeDeclared(0, << >>, 1, 1, 9, mono8, 1, Payload(1)),
           SerializeDeclared(0, << >>, 1, 1, 5, mono8, 16777215, Payload(1)),
           SerializeDeclared(0, << >>, 1000, 1000, 5, mono8, 1, Payload(1)),
           SerializeDeclared(0, << >>, 1, 1, 4, <<255, 254, 114, 56>>, 3, Payload(3)),
           SerializeDeclared(0, << >>, 1, 1, 2, <<195, 169>>, 1, Payload(1)) }

FrameIds == {<< >>, <<99, 97, 109>>}

Encodings == {bgr8, rgb8, mono8, gray8, mono16, yuv422, mono8 \o <<0>>}

\* Structural inputs: every header, declared length and present length up to
\* the given bounds.
StructuralInputs(maxDim, maxData) ==
    {Serialize(fid, h, w, e, dl, Payload(n)) :
        fid \in FrameIds, h \in 0 .. maxDim, w \in 0 .. maxDim, e \in Encodings,
        dl \in 0 .. maxData, n \in 0 .. maxData}

\* One-pixel mono16 records over the given low and high bytes of the sample.
Mono16Inputs(bytes) ==
    {Serialize(<< >>, 1, 1, mono16, 2, <<lo, hi>>) : lo \in bytes, hi \in bytes}

(***************************************************************************)
(* Specification of the decoder alone: one input, one call.                *)
(***************************************************************************)
NoRecord ==
    [topic |-> << >>, raw |-> << >>, result |-> ParseFailure, decoded |-> FALSE,
     imwrite_called |-> FALSE, imwrite_arg |-> None]

NoReturn == [done |-> FALSE, isNone |-> TRUE, value |-> 0]

InitDecode ==
    /\ pc = "input"
    /\ raw_data \in StructuralInputs(MaxDim, MaxData) \cup Mono16Inputs(Byte)
                     \cup MalformedInputs
    /\ parsed = ParseFailure
    /\ bag = {}
    /\ image_topics = {}
    /\ extraction_count = << >>
    /\ success_count = << >>
    /\ records_read = << >>
    /\ decode_calls = 0
    /\ sink_log = << >>
    /\ last = NoRecord
    /\ returned = NoReturn
    /\ outcome = [message |-> "running", exit_code |-> 0]

Decode ==
    /\ pc = "input"
    /\ parsed' = parse_ros1_image_message(raw_data)
    /\ pc' = "decoded"
    /\ UNCHANGED <<bag, image_topics, extraction_count, success_count, records_read,
                   decode_calls, sink_log, last, returned, outcome, raw_data>>

NextDecode == Decode

SpecDecode == InitDecode /\ [][NextDecode]_vars

(***************************************************************************)
(* Topics and their classification.                                        *)
(***************************************************************************)
\* Python's `sub in s` on strings.
Contains(sub, s) ==
    \E i \in 0 .. (Len(s) - Len(sub)) : SubSeq(s, i + 1, i + Len(sub)) = sub

UpperCase == <<"A", "B", "C", "D", "E", "F", "G", "H", "I", "J", "K", "L", "M",
               "N", "O", "P", "Q", "R", "S", "T", "U", "V", "W", "X", "Y", "Z">>

LowerCase == <<"a", "b", "c", "d", "e", "f", "g", "h", "i", "j", "k", "l", "m",
               "n", "o", "p", "q", "r", "s", "t", "u", "v", "w", "x", "y", "z">>

\* str.lower()
LowerChar(c) ==
    IF \E k \in 1 .. Len(UpperCase) : UpperCase[k] = c
    THEN LowerCase[CHOOSE k \in 1 .. Len(UpperCase) : UpperCase[k] = c]
    ELSE c

Lower(s) == [i \in 1 .. Len(s) |-> LowerChar(s[i])]

StrImage == <<"I", "m", "a", "g", "e">>

StrImageLower == <<"i", "m", "a", "g", "e">>

\* extract_all_images_from_bag: if 'Image' in topic_info.msgtype
IsImageTopic(info) == Contains(StrImage, info.msgtype)

\* analyze_ros1_bag: if 'Image' in topic_info.msgtype or 'image' in topic_name.lower()
IsPotentialImageTopic(info) ==
    Contains(StrImage, info.msgtype) \/ Contains(StrImageLower, Lower(info.name))

\* /cam/front : sensor_msgs/Image
TopicCamFront ==
    [name |-> <<"/", "c", "a", "m", "/", "f", "r", "o", "n", "t">>,
     msgtype |-> <<"s", "e", "n", "s", "o", "r", "_", "m", "s", "g", "s", "/",
                   "I", "m", "a", "g", "e">>]

\* /imu : sensor_msgs/Imu
TopicImu ==
    [name |-> <<"/", "i", "m", "u">>,
     msgtype |-> <<"s", "e", "n", "s", "o", "r", "_", "m", "s", "g", "s", "/",
                   "I", "m", "u">>]

\* /camera/IMAGE_raw : custom_msgs/Frame
TopicImageRaw ==
    [name |-> <<"/", "c", "a", "m", "e", "r", "a", "/", "I", "M", "A", "G", "E",
                "_", "r", "a", "w">>,
     msgtype |-> <<"c", "u", "s", "t", "o", "m", "_", "m", "s", "g", "s", "/",
                   "F", "r", "a", "m", "e">>]

\* /left : sensor_msgs/CompressedImage
TopicLeft ==
    [name |-> <<"/", "l", "e", "f", "t">>,
     msgtype |-> <<"s", "e", "n", "s", "o", "r", "_", "m", "s", "g", "s", "/",
                   "C", "o", "m", "p", "r", "e", "s", "s", "e", "d",
                   "I", "m", "a", "g", "e">>]

TopicUniverse == {TopicCamFront, TopicImu, TopicImageRaw, TopicLeft}

\* reader.topics of the bags the program is run on.
Bags ==
    { {},
      {TopicImu},
      {TopicImageRaw, TopicImu},
      {TopicCamFront, TopicImu},
      {TopicCamFront, TopicLeft, TopicImageRaw} }

TopicNames(b) == {info.name : info \in b}

(***************************************************************************)
(* The extraction loop.                                                    *)
(***************************************************************************)
\* f"{n:04d}": the decimal digits of n, zero-padded on the left to 4.
RECURSIVE Digits(_)
Digits(n) == IF n < 10 THEN <<n>> ELSE Digits(n \div 10) \o <<n % 10>>

RECURSIVE ZeroPad(_, _)
ZeroPad(ds, width) == IF Len(ds) >= width THEN ds ELSE ZeroPad(<<0>> \o ds, width)

Fmt04d(n) == ZeroPad(Digits(n), 4)

\* extraction_count[topic_name] += 1
Increment_AllTopics(count, topic_name) == [t \in DOMAIN count |-> count[t] + 1]

Increment_ByTwo(count, topic_name) == [count EXCEPT ![topic_name] = @ + 2]

Increment(count, topic_name) == [count EXCEPT ![topic_name] = @ + 1]

\* if img_array is not None
IsDecoded_Always(result) == TRUE

IsDecoded(result) == ~result.img.isNone

\* The array passed to cv2.imwrite: a 3-dimensional array goes through
\* cv2.cvtColor(img_array, cv2.COLOR_RGB2BGR), any other is passed as it is.
ImwriteArg_NoReorder(img_array) == img_array

ImwriteArg(img_array) ==
    IF Len(img_array.shape) = 3 THEN SwapRB(img_array) ELSE img_array

\* What cv2.imwrite can do with a non-empty image: write the file and return
\* True, write nothing and return False, or raise cv2.error.
SinkOutcomes == {"written", "returned_false", "raised"}

\* The records reader.messages() yields in the extraction runs.
PipelineInputs ==
    { Serialize(<< >>, 1, 1, bgr8, 3, Payload(3)),
      Serialize(<< >>, 1, 2, bgr8, 6, Payload(6)),
      Serialize(<< >>, 1, 1, rgb8, 3, Payload(3)),
      Serialize(<<99, 97, 109>>, 1, 2, mono8, 2, Payload(2)),
      Serialize(<< >>, 1, 1, mono16, 2, Payload(2)),
      Serialize(<< >>, 1, 1, yuv422, 2, Payload(2)),
      Serialize(<< >>, 2, 2, mono8, 3, Payload(3)),
      Serialize(<< >>, 1, 1, mono8, 5, Payload(1)),
      Serialize(<< >>, 0, 0, mono8, 0, << >>),
      Serialize(<< >>, 0, 2, rgb8, 0, << >>) }

\* parse_ros1_image_message on each of them.
ParsedInputs == [r \in PipelineInputs |-> parse_ros1_image_message(r)]

RECURSIVE SumOver(_, _)
SumOver(count, topics) ==
    IF topics = {} THEN 0
    ELSE LET t == CHOOSE x \in topics : TRUE
         IN  count[t] + SumOver(count, topics \ {t})

TotalRead == SumOver(records_read, DOMAIN records_read)

Running == [message |-> "running", exit_code |-> 0]

Init ==
    /\ pc = "main"
    /\ bag \in Bags
    /\ image_topics = {}
    /\ extraction_count = << >>
    /\ success_count = << >>
    /\ records_read = [t \in TopicNames(bag) |-> 0]
    /\ decode_calls = 0
    /\ sink_log = << >>
    /\ last = NoRecord
    /\ returned = NoReturn
    /\ outcome = Running
    /\ raw_data = << >>
    /\ parsed = ParseFailure

\* __main__: the bag file is looked up before anything is opened.
MainStart ==
    /\ pc = "main"
    /\ \E exists \in BOOLEAN :
          IF exists
          THEN /\ pc' = "classify"
               /\ outcome' = outcome
          ELSE /\ pc' = "exited"
               /\ outcome' = [message |-> "Error: Bag file not found", exit_code |-> 1]
    /\ UNCHANGED <<bag, image_topics, extraction_count, success_count, records_read,
                   decode_calls, sink_log, last, returned, raw_data, parsed>>

\* extract_all_images_from_bag up to the loop: the image topics, the early
\* return when there is none, the two counters.
Classify ==
    /\ pc = "classify"
    /\ LET topics == {info.name : info \in {i \in bag : IsImageTopic(i)}}
       IN  /\ image_topics' = topics
           /\ IF topics = {}
              THEN /\ returned' = [done |-> TRUE, isNone |-> TRUE, value |-> 0]
                   /\ pc' = "returned"
                   /\ UNCHANGED <<extraction_count, success_count>>
              ELSE /\ extraction_count' = [t \in topics |-> 0]
                   /\ success_count' = [t \in topics |-> 0]
                   /\ pc' = "loop"
                   /\ UNCHANGED returned
    /\ UNCHANGED <<bag, records_read, decode_calls, sink_log, last, outcome,
                   raw_data, parsed>>

\* One iteration of `for connection, timestamp, rawdata in reader.messages()`.
\* A file is identified by its topic directory and its sequence number; the
\* timestamp part of the name is left out, and the position of the record in
\* the bag stands for its place in time.  cv2.imwrite's result is discarded:
\* success_count grows after every call that does not raise.
ProcessRecord ==
    /\ pc = "loop"
    /\ TotalRead < MaxRecords
    /\ \E topic_name \in TopicNames(bag), rawdata \in PipelineInputs, sink \in SinkOutcomes :
          LET result == ParsedInputs[rawdata]
              is_image == topic_name \in image_topics
              decoded == is_image /\ IsDecoded(result)
              color == Len(result.img.shape) = 3
              \* cv2.cvtColor and cv2.imwrite both raise on an empty image
              empty == Len(result.img.data) = 0
              imwrite_called == decoded /\ ~(color /\ empty)
              imwrite == IF empty THEN "raised" ELSE sink
              saved == imwrite_called /\ imwrite # "raised"
          IN  /\ records_read' = Increment(records_read, topic_name)
              /\ extraction_count' =
                    IF is_image THEN Increment(extraction_count, topic_name)
                    ELSE extraction_count
              /\ decode_calls' = IF is_image THEN decode_calls + 1 ELSE decode_calls
              /\ sink_log' =
                    IF imwrite_called
                    THEN Append(sink_log,
                                [topic |-> topic_name,
                                 number |-> Fmt04d(success_count[topic_name]),
                                 record |-> TotalRead + 1,
                                 outcome |-> imwrite])
                    ELSE sink_log
              /\ success_count' =
                    IF saved THEN Increment(success_count, topic_name)
                    ELSE success_count
              /\ last' = [topic |-> topic_name, raw |-> rawdata,
                          result |-> IF is_image THEN result ELSE ParseFailure,
                          decoded |-> is_image,
                          imwrite_called |-> imwrite_called,
                          imwrite_arg |-> IF imwrite_called THEN ImwriteArg(result.img)
                                          ELSE None]
    /\ UNCHANGED <<pc, bag, image_topics, returned, outcome, raw_data, parsed>>

\* The loop ends with the bag: the summary, and return total_extracted.
EndOfLog ==
    /\ pc = "loop"
    /\ returned' = [done |-> TRUE, isNone |-> FALSE,
                    value |-> SumOver(success_count, image_topics)]
    /\ pc' = "returned"
    /\ UNCHANGED <<bag, image_topics, extraction_count, success_count, records_read,
                   decode_calls, sink_log, last, outcome, raw_data, parsed>>

\* __main__ after the call: `extracted_count > 0` raises TypeError when the
\* call returned None, and the except clause exits with status 1.
MainResult ==
    /\ pc = "returned"
    /\ outcome' =
          IF returned.isNone
          THEN [message |-> "Error extracting images", exit_code |-> 1]
          ELSE IF returned.value > 0
          THEN [message |-> "Success! Extracted images", exit_code |-> 0]
          ELSE [message |-> "No images were extracted.", exit_code |-> 0]
    /\ pc' = "exited"
    /\ UNCHANGED <<bag, image_topics, extraction_count, success_count, records_read,
                   decode_calls, sink_log, last, returned, raw_data, parsed>>

Next == MainStart \/ Classify \/ ProcessRecord \/ EndOfLog \/ MainResult

Spec == Init /\ [][Next]_vars

(***************************************************************************)
(* Properties of the extraction run (specification Spec).                  *)
(***************************************************************************)
\* The cv2.imwrite calls for topic t that wrote their file, in call order.
WrittenFiles(t) == SelectSeq(sink_log, LAMBDA e : e.topic = t /\ e.outcome = "written")

\* The step reads one record, on topic t.
ReadsRecordOn(t) == pc = "loop" /\ pc' = "loop" /\ records_read'[t] = records_read[t] + 1

\* The step makes a cv2.imwrite call.
SinkCalled == Len(sink_log') = Len(sink_log) + 1

\* C1: for every image topic, the files written for it carry the sequence
\* numbers 0000, 0001, ... up to succeeded-1, in record order, each once.
C1_GapFreeNumbering ==
    \A t \in image_topics :
        LET w == WrittenFiles(t)
        IN  /\ Len(w) = success_count[t]
            /\ \A k \in 1 .. Len(w) : w[k].number = Fmt04d(k - 1)
            /\ \A j, k \in 1 .. Len(w) : j < k => w[j].record < w[k].record

\* C2: a record on an image topic adds exactly one to that topic's attempted
\* counter and leaves the counters of every other topic alone; a record on
\* another topic changes no counter, and causes no decode and no sink call;
\* attempted[t] is the number of records read on t, at the end of the run too.
C2_AttemptedCountsRecords ==
    /\ [][\A t \in TopicNames(bag) :
            ReadsRecordOn(t) =>
                IF t \in image_topics
                THEN /\ extraction_count'[t] = extraction_count[t] + 1
                     /\ decode_calls' = decode_calls + 1
                     /\ \A u \in image_topics \ {t} :
                            /\ extraction_count'[u] = extraction_count[u]
                            /\ success_count'[u] = success_count[u]
                ELSE /\ extraction_count' = extraction_count
                     /\ success_count' = success_count
                     /\ decode_calls' = decode_calls
                     /\ sink_log' = sink_log]_vars
    /\ [](\A t \in image_topics : extraction_count[t] = records_read[t])

C2_Witness ==
    /\ pc = "returned"
    /\ \E t \in image_topics : extraction_count[t] = 2
    /\ \E t \in TopicNames(bag) \ image_topics : records_read[t] = 1

\* The encoding field of the record is none of the five the decoder knows.
UnknownEncoding(raw) ==
    LET f == ReadFields(raw)
    IN  f.ok /\ f.encoding \notin {bgr8, rgb8, mono8, gray8, mono16}

\* C3: when the decoder fails on a record of an image topic, as it does on
\* every record with an unknown encoding, attempted grows by one for that
\* topic, no succeeded counter changes, no sink call is made, and the loop
\* goes on.
C3_DecodeFailureSkipsRecord ==
    [][\A t \in image_topics :
          (ReadsRecordOn(t) /\ (last'.result.img.isNone \/ UnknownEncoding(last'.raw))) =>
              /\ last'.decoded
              /\ last'.result = ParseFailure
              /\ extraction_count'[t] = extraction_count[t] + 1
              /\ success_count' = success_count
              /\ sink_log' = sink_log
              /\ pc' = "loop"]_vars

C3_Witness ==
    /\ pc = "loop"
    /\ last.decoded
    /\ UnknownEncoding(last.raw)
    /\ last.result.img.isNone
    /\ extraction_count[last.topic] = 2
    /\ success_count[last.topic] = 1

\* C4: when the sink fails to persist a decoded frame, by raising or by
\* returning a failure result, succeeded is not incremented for that record
\* and the loop goes on.
C4_SinkFailureNotCounted ==
    [][(pc = "loop" /\ SinkCalled /\ sink_log'[Len(sink_log')].outcome # "written") =>
          /\ success_count' = success_count
          /\ pc' = "loop"]_vars

\* C5: the topics the extraction processes are exactly those whose type
\* contains "Image" or whose name contains "image" in any case.
C5_ClassifiedTopics ==
    (pc = "loop" \/ returned.done) =>
        image_topics = {info.name : info \in {i \in bag : IsPotentialImageTopic(i)}}

\* C6: a run on a bag without image topics processes no record and ends
\* with the 'no images extracted' result and exit status 0.
C6_NoImageTopicsIsNotAnError ==
    (pc = "exited" /\ returned.done /\ image_topics = {}) =>
        /\ decode_calls = 0
        /\ sink_log = << >>
        /\ outcome.message = "No images were extracted."
        /\ outcome.exit_code = 0

(***************************************************************************)
(* Properties of the decoder (specification SpecDecode).                   *)
(***************************************************************************)
\* height*width*channels*bytes_per_sample of a known encoding.
Channels(encoding) == IF encoding \in {bgr8, rgb8} THEN 3 ELSE 1

BytesPerSample(encoding) == IF encoding = mono16 THEN 2 ELSE 1

\* C7: a record whose header declares height 0 or width 0 is never decoded.
C7_ZeroDimensionFails ==
    LET f == ReadFields(raw_data)
    IN  (pc = "decoded" /\ f.ok /\ (f.height = 0 \/ f.width = 0)) =>
            parsed = ParseFailure

\* C8: a record with fewer bytes after the data_len field than data_len
\* declares is never decoded.  Stated for the records of positive height and
\* width (a zero dimension is the subject of C7).
C8_TruncatedPayloadFails ==
    LET f == ReadFields(raw_data)
    IN  (pc = "decoded" /\ f.ok /\ f.height > 0 /\ f.width > 0
            /\ f.remaining < f.data_len) =>
            parsed = ParseFailure

\* C9: a record whose data_len differs from
\* height*width*channels*bytes_per_sample is never decoded, and every
\* decoded frame holds exactly height*width*channels 8-bit samples.  Stated
\* for the records of positive height and width (a zero dimension is the
\* subject of C7).
C9_SizeMismatchFails ==
    LET f == ReadFields(raw_data)
        pixels == f.height * f.width * Channels(f.encoding)
    IN  (pc = "decoded" /\ f.ok /\ f.height > 0 /\ f.width > 0) =>
            /\ (f.data_len # pixels * BytesPerSample(f.encoding)) => parsed = ParseFailure
            /\ ~parsed.img.isNone =>
                  /\ Len(parsed.img.data) = pixels
                  /\ \A i \in 1 .. pixels : parsed.img.data[i] \in Byte

\* The record with fields f is a well-formed mono16 record.
WellFormedMono16(f) ==
    /\ f.ok
    /\ f.encoding = mono16
    /\ f.height > 0
    /\ f.width > 0
    /\ f.data_len = 2 * f.height * f.width
    /\ f.remaining = f.data_len

\* C10: every output sample of a well-formed mono16 record is the
\* little-endian 16-bit input sample shifted right by 8 bits: the high byte,
\* that is floor(v / 256), never rounded up.
C10_Mono16ShiftsRightBy8 ==
    LET f == ReadFields(raw_data)
    IN  (pc = "decoded" /\ WellFormedMono16(f)) =>
            /\ ~parsed.img.isNone
            /\ Len(parsed.img.data) = f.height * f.width
            /\ \A i \in 1 .. Len(parsed.img.data) :
                  LET lo == f.image_data[2 * i - 1]
                      hi == f.image_data[2 * i]
                      v == lo + 256 * hi
                      out == parsed.img.data[i]
                  IN  /\ out = hi
                      /\ 256 * out <= v
                      /\ v < 256 * (out + 1)

\* The sample 0x12FF decodes to 0x12.
C10_Witness ==
    /\ pc = "decoded"
    /\ WellFormedMono16(ReadFields(raw_data))
    /\ ReadFields(raw_data).image_data = <<255, 18>>
    /\ parsed.img.data = <<18>>

(***************************************************************************)
(* Channel order (specification Spec).                                     *)
(***************************************************************************)
\* The record with fields f is a well-formed 3-channel record.
WellFormedColor(f) ==
    /\ f.ok
    /\ f.encoding \in {bgr8, rgb8}
    /\ f.height > 0
    /\ f.width > 0
    /\ f.data_len = 3 * f.height * f.width
    /\ f.remaining = f.data_len

\* Sample c (1..3) of pixel p (0-based) of a flat 3-channel buffer.
Sample(buffer, p, c) == buffer[3 * p + c]

\* C11: for a well-formed 3-channel record the decoder returns RGB pixels:
\* every bgr8 pixel with its three bytes reversed, every rgb8 pixel as it
\* is; the array handed to cv2.imwrite is the decoded one with the three
\* bytes of every pixel reversed once, so a bgr8 payload reaches the codec
\* in its original byte order.
C11_CanonicalRGBThenOneReorder ==
    LET f == ReadFields(last.raw)
        out == last.result.img
        npixels == f.height * f.width
    IN  (last.decoded /\ WellFormedColor(f)) =>
            /\ ~out.isNone
            /\ out.shape = <<f.height, f.width, 3>>
            /\ Len(out.data) = 3 * npixels
            /\ \A p \in 0 .. npixels - 1 : \A c \in 1 .. 3 :
                  Sample(out.data, p, c) =
                      IF f.encoding = bgr8 THEN Sample(f.image_data, p, 4 - c)
                      ELSE Sample(f.image_data, p, c)
            /\ last.imwrite_called
            /\ sink_log # << >>
            /\ sink_log[Len(sink_log)].record = TotalRead
            /\ Len(last.imwrite_arg.data) = 3 * npixels
            /\ \A p \in 0 .. npixels - 1 : \A c \in 1 .. 3 :
                  Sample(last.imwrite_arg.data, p, c) = Sample(out.data, p, 4 - c)
            /\ f.encoding = bgr8 => last.imwrite_arg.data = f.image_data

\* A two-pixel bgr8 record was decoded and written.
C11_Witness ==
    /\ last.decoded
    /\ WellFormedColor(ReadFields(last.raw))
    /\ ReadFields(last.raw).encoding = bgr8
    /\ ReadFields(last.raw).width = 2
    /\ sink_log # << >>
    /\ sink_log[Len(sink_log)].outcome = "written"
    /\ last.imwrite_arg.data = Payload(6)
    /\ last.result.img.data # Payload(6)

(***************************************************************************)
(* Malformed input (specification SpecDecode).                             *)
(***************************************************************************)
\* C12: for every byte sequence the call returns: no exception reaches the
\* caller, and what is returned is a decoded frame or the failure value
\* (None, 0, 0, ""); a sequence shorter than the 16-byte fixed prefix gives
\* the failure value.
C12_NeverRaises ==
    pc = "decoded" =>
        /\ ~parsed.raised
        /\ parsed.img.isNone => parsed = ParseFailure
        /\ Len(raw_data) < 16 => parsed = ParseFailure

\* A record cut inside its fixed prefix was given the failure value.
C12_Witness ==
    /\ pc = "decoded"
    /\ Len(raw_data) = 14
    /\ raw_data \in MalformedInputs
    /\ parsed = ParseFailure
    /\ ~parsed.raised

(***************************************************************************)
(* The counters (specification Spec).                                      *)
(***************************************************************************)
\* C13: for every image topic 0 <= succeeded <= attempted <= records of the
\* topic read so far, in every state; in every step each of the two
\* counters stays or grows by one, and succeeded grows only in a step that
\* reads a record of the topic and counts it as attempted.
C13_CounterInvariant ==
    /\ [](\A t \in image_topics :
            /\ 0 <= success_count[t]
            /\ success_count[t] <= extraction_count[t]
            /\ extraction_count[t] <= records_read[t])
    /\ [][\A t \in image_topics :
            /\ extraction_count'[t] \in {extraction_count[t], extraction_count[t] + 1}
            /\ success_count'[t] \in {success_count[t], success_count[t] + 1}
            /\ records_read'[t] \in {records_read[t], records_read[t] + 1}
            /\ extraction_count'[t] # extraction_count[t] =>
                  records_read'[t] = records_read[t] + 1
            /\ success_count'[t] # success_count[t] =>
                  /\ records_read'[t] = records_read[t] + 1
                  /\ extraction_count'[t] = extraction_count[t] + 1
                  /\ last'.topic = t
                  /\ last'.decoded]_vars

\* A topic with two records attempted and one of them succeeded.
C13_Witness ==
    /\ pc = "loop"
    /\ \E t \in image_topics :
          /\ success_count[t] = 1
          /\ extraction_count[t] = 2
          /\ records_read[t] = 2

====
